---------------------------- MODULE Spec2Model ----------------------------
(***************************************************************************)
(* A model of tools/mkdoc.py: the declaration extractor (Decl, last_word,  *)
(* typeset, parse_decls, load_file) and the template expander (main).      *)
(*                                                                         *)
(* Strings are sequences of one-character strings.  An OrderedDict is a    *)
(* sequence of <<key, value>> pairs with pairwise distinct keys.  A header *)
(* file is the sequence of (text, decl) groups that doc.finditer yields,   *)
(* and a template is a sequence of elements, each one character of plain   *)
(* text or one whole insertion marker as matched by ins.                   *)
(***************************************************************************)
EXTENDS Integers, Sequences, FiniteSets, TLC

VARIABLES
    template,   \* main: the template text read from args[0]
    fs,         \* the header files on disk: path -> matched groups
    pc,         \* position of main in its loop
    scan,       \* ins.finditer: end of the previous match
    ip,         \* main: the current match (its index in template), 0 if none
    pos,        \* main: last position of input copied
    output,     \* the output file: what has been written so far
    CACHE,      \* module global: path -> OrderedDict of declarations
    decls,      \* main: the declarations selected for the current marker
    k,          \* main: position of the rendering loop in decls.values()
    reads,      \* history: how many times each path has been opened and read
    err,        \* the exception that ended the run, "" if none
    com,        \* Decl.__init__: argument com
    decl,       \* Decl.__init__: argument decl
    self,       \* Decl.__init__: the constructed Decl, None before
    text,       \* typeset: argument text
    typeset_out \* typeset: the returned string, None before

mainVars == <<template, fs, pc, scan, ip, pos, output, CACHE, decls, k, reads, err>>
declVars == <<com, decl, self>>
typesetVars == <<text, typeset_out>>
vars == <<template, fs, pc, scan, ip, pos, output, CACHE, decls, k, reads, err,
          com, decl, self, text, typeset_out>>

None == [none |-> TRUE]

-----------------------------------------------------------------------------
(* Bounds of the model.                                                    *)

MaxDeclLen == 4     \* characters of a declaration before its terminator
MaxComLen == 7      \* characters of a comment text
MaxTextLen == 6     \* characters of a comment body given to typeset
MaxDecls == 3       \* commented declarations in a scanned header
MaxNames == 3       \* names listed in one marker
MaxTemplate == 3    \* elements of a template

-----------------------------------------------------------------------------
(* Characters and Python's string methods.                                 *)

NL == "\n"
Whitespace == {" ", NL}
\* \w of the regular expressions, over the characters the model uses
WordChars == {"a", "b", "c", "f", "g", "t", "v", "1", "2", "_"}

SeqsUpTo(S, n) == UNION {[1..m -> S] : m \in 0..n}

\* s[i:] and s[:i] of Python, i a 0-based offset
From(s, i) == SubSeq(s, i + 1, Len(s))
UpTo(s, i) == SubSeq(s, 1, i)

\* str.rstrip(chars)
RECURSIVE rstrip(_, _)
rstrip(s, chars) ==
    IF s # <<>> /\ s[Len(s)] \in chars THEN rstrip(UpTo(s, Len(s) - 1), chars) ELSE s

\* str.lstrip()
RECURSIVE lstrip(_)
lstrip(s) ==
    IF s # <<>> /\ s[1] \in Whitespace THEN lstrip(Tail(s)) ELSE s

\* str.strip()
strip(s) == lstrip(rstrip(s, Whitespace))

\* str.find(c): the 0-based offset of the first c, -1 if there is none
find(s, c) ==
    IF \E i \in 1..Len(s) : s[i] = c
    THEN (CHOOSE i \in 1..Len(s) : s[i] = c /\ \A j \in 1..(i - 1) : s[j] # c) - 1
    ELSE -1

\* str.split(sep) for a one-character sep: empty pieces are kept
split_on(s, sep) ==
    LET F[i \in 0..Len(s)] ==
            IF i = 0 THEN << <<>> >>
            ELSE LET prev == F[i - 1]
                 IN  IF s[i] = sep THEN Append(prev, <<>>)
                     ELSE [prev EXCEPT ![Len(prev)] = Append(@, s[i])]
    IN  F[Len(s)]

\* str.split(): pieces between runs of whitespace, empty pieces dropped
split_ws(s) ==
    LET F[i \in 0..Len(s)] ==
            IF i = 0 THEN <<>>
            ELSE LET prev == F[i - 1]
                 IN  IF s[i] \in Whitespace THEN prev
                     ELSE IF i > 1 /\ s[i - 1] \notin Whitespace
                     THEN [prev EXCEPT ![Len(prev)] = Append(@, s[i])]
                     ELSE Append(prev, <<s[i]>>)
    IN  F[Len(s)]

\* sep.join(pieces)
RECURSIVE join(_, _)
join(sep, pieces) ==
    IF pieces = <<>> THEN <<>>
    ELSE IF Len(pieces) = 1 THEN pieces[1]
    ELSE pieces[1] \o sep \o join(sep, Tail(pieces))

\* str.startswith(' ')
startswith_space(line) == line # <<>> /\ line[1] = " "

-----------------------------------------------------------------------------
(* The regular expressions nid and spc.                                    *)

\* nid.split(s): s cut at every maximal run of non-word characters; a run at
\* the start or the end of s leaves an empty piece there
nid_split(s) ==
    LET F[i \in 0..Len(s)] ==
            IF i = 0 THEN << <<>> >>
            ELSE LET prev == F[i - 1]
                 IN  IF s[i] \in WordChars
                     THEN [prev EXCEPT ![Len(prev)] = Append(@, s[i])]
                     ELSE IF i > 1 /\ s[i - 1] \notin WordChars THEN prev
                     ELSE Append(prev, <<>>)
    IN  F[Len(s)]

\* A mutant of spc_sub: spc without its (?m) flag, so ^ is the start of the string
spc_sub_first_line(s) ==
    LET n == IF \E j \in 0..4 : j <= Len(s) /\ \A i \in 1..j : s[i] = " "
             THEN CHOOSE j \in 0..4 :
                    /\ j <= Len(s) /\ \A i \in 1..j : s[i] = " "
                    /\ (j = 4 \/ j = Len(s) \/ s[j + 1] # " ")
             ELSE 0
    IN  From(s, n)

\* spc.sub('', s): one left-to-right pass; at the start of a line a match takes
\* as many spaces as there are, up to 4, and the scan resumes after the match,
\* which is no longer the start of a line
RECURSIVE spc_sub_from(_, _)
spc_sub_from(s, i) ==
    IF i > Len(s) THEN <<>>
    ELSE IF (i = 1 \/ s[i - 1] = NL) /\ s[i] = " "
    THEN LET n == CHOOSE j \in 1..4 :
                    /\ i + j - 1 <= Len(s)
                    /\ \A m \in i..(i + j - 1) : s[m] = " "
                    /\ (j = 4 \/ i + j > Len(s) \/ s[i + j] # " ")
         IN  spc_sub_from(s, i + n)
    ELSE <<s[i]>> \o spc_sub_from(s, i + 1)

spc_sub(s) == spc_sub_from(s, 1)

-----------------------------------------------------------------------------
(* last_word, typeset and class Decl.                                      *)

last_word(s) ==
    LET pieces == nid_split(strip(s)) IN pieces[Len(pieces)]

\* The fence line of three backquotes; BQ stands for the backquote character
FENCE == <<"BQ", "BQ", "BQ">>
BULLET == <<" ", "-", " ", " ">>
INDENT == <<" ", " ", " ", " ">>

\* The first loop of typeset: the lines of text with a fence line put in
\* wherever the indentation status changes
typeset_loop(lines_in) ==
    LET F[i \in 0..Len(lines_in)] ==
            IF i = 0 THEN [lines |-> <<>>, fence |-> FALSE]
            ELSE LET prev == F[i - 1]
                     line == lines_in[i]
                 IN  IF prev.fence # startswith_space(line)
                     THEN [lines |-> prev.lines \o <<FENCE, line>>,
                           fence |-> ~prev.fence]
                     ELSE [lines |-> Append(prev.lines, line), fence |-> prev.fence]
    IN  F[Len(lines_in)]

\* A mutant of typeset_fences: the closing fence after the loop is forgotten
typeset_fences_unclosed(lines_in) == typeset_loop(lines_in).lines

\* The lines after the first loop and the "if fence" that follows it
typeset_fences(lines_in) ==
    LET last == typeset_loop(lines_in)
    IN  IF last.fence THEN Append(last.lines, FENCE) ELSE last.lines

\* The second loop of typeset: the list marker on the first line, four spaces
\* on every other line that is not empty
typeset_prefix(lines) ==
    [i \in 1..Len(lines) |->
        IF i = 1 THEN BULLET \o lines[i]
        ELSE IF lines[i] # <<>> THEN INDENT \o lines[i]
        ELSE lines[i]]

typeset(t) == join(<<NL>>, typeset_prefix(typeset_fences(split_on(t, NL))))

\* Decl.__init__: the fields name, decl and comment
Decl_name(dcl) ==
    LET lp == find(dcl, "(")
    IN  IF lp < 0 THEN last_word(rstrip(dcl, {";"})) ELSE last_word(UpTo(dcl, lp))

Decl_decl(dcl) == join(<<" ">>, split_ws(strip(rstrip(dcl, {";", "{"}))))

Decl_comment(c) == spc_sub(rstrip(c, Whitespace))

Decl(c, dcl) ==
    [name |-> Decl_name(dcl), decl |-> Decl_decl(dcl), comment |-> Decl_comment(c)]

\* Decl.markdown: the rendered block; the fixed text of the block is the shape of the record
markdown(dc) ==
    [kind |-> "block", name |-> dc.name, decl |-> dc.decl \o <<";">>,
     comment |-> typeset(dc.comment)]

-----------------------------------------------------------------------------
(* collections.OrderedDict, parse_decls and the selection of main.         *)

od_has(od, key) == \E i \in 1..Len(od) : od[i][1] = key

od_get(od, key) == od[CHOOSE i \in 1..Len(od) : od[i][1] = key][2]

od_keys(od) == [i \in 1..Len(od) |-> od[i][1]]

od_values(od) == [i \in 1..Len(od) |-> od[i][2]]

\* A mutant of od_set: a key that is set again moves to the end
od_set_move_to_end(od, key, value) ==
    Append(SelectSeq(od, LAMBDA e : e[1] # key), <<key, value>>)

\* A mutant of od_set: a key that is set again keeps its first value
od_set_keep_first(od, key, value) ==
    IF od_has(od, key) THEN od ELSE Append(od, <<key, value>>)

\* od[key] = value: a new key goes to the end, a key already there keeps its
\* place and takes the new value
od_set(od, key, value) ==
    IF od_has(od, key)
    THEN [i \in 1..Len(od) |-> IF od[i][1] = key THEN <<key, value>> ELSE od[i]]
    ELSE Append(od, <<key, value>>)

\* OrderedDict(pairs)
od_from_pairs(pairs) ==
    LET F[i \in 0..Len(pairs)] ==
            IF i = 0 THEN <<>> ELSE od_set(F[i - 1], pairs[i][1], pairs[i][2])
    IN  F[Len(pairs)]

\* parse_decls(text), text given as the groups of the matches of doc in order
parse_decls(groups) ==
    LET F[i \in 0..Len(groups)] ==
            IF i = 0 THEN <<>>
            ELSE LET dc == Decl(groups[i].text, groups[i].decl)
                 IN  od_set(F[i - 1], dc.name, dc)
    IN  F[Len(groups)]

\* A mutant of select: the listed names picked in the order of the header
select_header_order(ds, names) ==
    SelectSeq(ds, LAMBDA e : \E i \in 1..Len(names) : names[i] = e[1])

\* A mutant of select: a name listed again moves to its last position
select_last_occurrence(ds, names) ==
    LET F[i \in 0..Len(names)] ==
            IF i = 0 THEN <<>>
            ELSE od_set_move_to_end(F[i - 1], names[i], od_get(ds, names[i]))
    IN  F[Len(names)]

\* main: OrderedDict((key, decls[key]) for key in names), every key present
select(ds, names) ==
    od_from_pairs([i \in 1..Len(names) |-> <<names[i], od_get(ds, names[i])>>])

-----------------------------------------------------------------------------
(* The template and the output file.                                       *)

Text(c) == [kind |-> "text", ch |-> c]
Marker(file, names) == [kind |-> "marker", file |-> file, names |-> names]
BeginLine(file) == [kind |-> "begin", file |-> file]
EndLine == [kind |-> "end"]

\* ins.finditer: the first marker after offset from, 0 if there is none
next_match(tpl, from) ==
    IF \E i \in (from + 1)..Len(tpl) : tpl[i].kind = "marker"
    THEN CHOOSE i \in (from + 1)..Len(tpl) :
            /\ tpl[i].kind = "marker"
            /\ \A j \in (from + 1)..(i - 1) : tpl[j].kind # "marker"
    ELSE 0

\* ip.start() and ip.end(), 0-based offsets
ip_start == ip - 1
ip_end == ip

\* template[a:b]
slice(tpl, a, b) == SubSeq(tpl, a + 1, b)

-----------------------------------------------------------------------------
(* main, one action per statement of its loop.                             *)

\* for ip in ins.finditer(template): the next match, or the end of the loop
FindNext ==
    /\ pc = "find"
    /\ LET i == next_match(template, scan)
       IN  /\ ip' = i
           /\ scan' = IF i = 0 THEN scan ELSE i
           /\ pc' = IF i = 0 THEN "tail" ELSE "copy"
    /\ UNCHANGED <<template, fs, pos, output, CACHE, decls, k, reads, err>>
    /\ UNCHANGED <<declVars, typesetVars>>

\* A mutant of CopyText: the cursor is left at the start of the marker
CopyTextNoAdvance ==
    /\ pc = "copy"
    /\ output' = output \o slice(template, pos, ip_start)
    /\ pos' = ip_start
    /\ pc' = "load"
    /\ UNCHANGED <<template, fs, scan, ip, CACHE, decls, k, reads, err>>
    /\ UNCHANGED <<declVars, typesetVars>>

\* output.write(template[pos:ip.start()]); pos = ip.end()
CopyText ==
    /\ pc = "copy"
    /\ output' = output \o slice(template, pos, ip_start)
    /\ pos' = ip_end
    /\ pc' = "load"
    /\ UNCHANGED <<template, fs, scan, ip, CACHE, decls, k, reads, err>>
    /\ UNCHANGED <<declVars, typesetVars>>

\* decls = load_file(path), path in CACHE
LoadFileHit ==
    /\ pc = "load"
    /\ template[ip].file \in DOMAIN CACHE
    /\ decls' = CACHE[template[ip].file]
    /\ pc' = "select"
    /\ UNCHANGED <<template, fs, scan, ip, pos, output, CACHE, k, reads, err>>
    /\ UNCHANGED <<declVars, typesetVars>>

\* decls = load_file(path), path not in CACHE: the file is read and scanned
LoadFileMiss ==
    /\ pc = "load"
    /\ template[ip].file \notin DOMAIN CACHE
    /\ template[ip].file \in DOMAIN fs
    /\ LET path == template[ip].file
       IN  /\ CACHE' = CACHE @@ (path :> parse_decls(fs[path]))
           /\ reads' = [reads EXCEPT ![path] = @ + 1]
           /\ decls' = CACHE'[path]
    /\ pc' = "select"
    /\ UNCHANGED <<template, fs, scan, ip, pos, output, k, err>>
    /\ UNCHANGED <<declVars, typesetVars>>

\* decls = load_file(path), no such file: file() raises IOError
LoadFileError ==
    /\ pc = "load"
    /\ template[ip].file \notin DOMAIN CACHE
    /\ template[ip].file \notin DOMAIN fs
    /\ pc' = "aborted"
    /\ err' = "IOError"
    /\ UNCHANGED <<template, fs, scan, ip, pos, output, CACHE, decls, k, reads>>
    /\ UNCHANGED <<declVars, typesetVars>>

\* if ip.group('names'): false, the full mapping is kept
SelectAll ==
    /\ pc = "select"
    /\ template[ip].names = <<>>
    /\ pc' = "begin"
    /\ UNCHANGED <<template, fs, scan, ip, pos, output, CACHE, decls, k, reads, err>>
    /\ UNCHANGED <<declVars, typesetVars>>

\* A mutant of SelectNames: the selection is stored back into the cache
SelectNamesIntoCache ==
    /\ pc = "select"
    /\ template[ip].names # <<>>
    /\ \A i \in 1..Len(template[ip].names) : od_has(decls, template[ip].names[i])
    /\ decls' = select(decls, template[ip].names)
    /\ CACHE' = [CACHE EXCEPT ![template[ip].file] = decls']
    /\ pc' = "begin"
    /\ UNCHANGED <<template, fs, scan, ip, pos, output, k, reads, err>>
    /\ UNCHANGED <<declVars, typesetVars>>

\* decls = OrderedDict(...), every listed name a key of decls
SelectNames ==
    /\ pc = "select"
    /\ template[ip].names # <<>>
    /\ \A i \in 1..Len(template[ip].names) : od_has(decls, template[ip].names[i])
    /\ decls' = select(decls, template[ip].names)
    /\ pc' = "begin"
    /\ UNCHANGED <<template, fs, scan, ip, pos, output, CACHE, k, reads, err>>
    /\ UNCHANGED <<declVars, typesetVars>>

\* A mutant of SelectKeyError: the begin line is written before the lookup fails
SelectKeyErrorAfterBegin ==
    /\ pc = "select"
    /\ template[ip].names # <<>>
    /\ \E i \in 1..Len(template[ip].names) : ~od_has(decls, template[ip].names[i])
    /\ output' = Append(output, BeginLine(template[ip].file))
    /\ pc' = "aborted"
    /\ err' = "KeyError"
    /\ UNCHANGED <<template, fs, scan, ip, pos, CACHE, decls, k, reads>>
    /\ UNCHANGED <<declVars, typesetVars>>

\* decls = OrderedDict(...), a listed name missing: decls[key] raises KeyError
SelectKeyError ==
    /\ pc = "select"
    /\ template[ip].names # <<>>
    /\ \E i \in 1..Len(template[ip].names) : ~od_has(decls, template[ip].names[i])
    /\ pc' = "aborted"
    /\ err' = "KeyError"
    /\ UNCHANGED <<template, fs, scan, ip, pos, output, CACHE, decls, k, reads>>
    /\ UNCHANGED <<declVars, typesetVars>>

\* print('<!-- begin generated section from "%s", DO NOT EDIT -->' % file)
PrintBegin ==
    /\ pc = "begin"
    /\ output' = Append(output, BeginLine(template[ip].file))
    /\ k' = 1
    /\ pc' = "render"
    /\ UNCHANGED <<template, fs, scan, ip, pos, CACHE, decls, reads, err>>
    /\ UNCHANGED <<declVars, typesetVars>>

\* for decl in decls.values(): print(decl.markdown())
PrintDecl ==
    /\ pc = "render"
    /\ k <= Len(decls)
    /\ output' = Append(output, markdown(od_values(decls)[k]))
    /\ k' = k + 1
    /\ UNCHANGED <<template, fs, pc, scan, ip, pos, CACHE, decls, reads, err>>
    /\ UNCHANGED <<declVars, typesetVars>>

\* print('<!-- end generated section -->')
PrintEnd ==
    /\ pc = "render"
    /\ k > Len(decls)
    /\ output' = Append(output, EndLine)
    /\ pc' = "find"
    /\ UNCHANGED <<template, fs, scan, ip, pos, CACHE, decls, k, reads, err>>
    /\ UNCHANGED <<declVars, typesetVars>>

\* output.write(template[pos:])
CopyTail ==
    /\ pc = "tail"
    /\ output' = output \o slice(template, pos, Len(template))
    /\ pc' = "done"
    /\ UNCHANGED <<template, fs, scan, ip, pos, CACHE, decls, k, reads, err>>
    /\ UNCHANGED <<declVars, typesetVars>>

Next ==
    \/ FindNext
    \/ CopyText
    \/ LoadFileHit
    \/ LoadFileMiss
    \/ LoadFileError
    \/ SelectAll
    \/ SelectNames
    \/ SelectKeyError
    \/ PrintBegin
    \/ PrintDecl
    \/ PrintEnd
    \/ CopyTail

-----------------------------------------------------------------------------
(* The inputs of the runs.                                                 *)

name_f == <<"f">>
name_g == <<"g">>

\* /** A */\nt f(v);        /** b\n      c */\nt g();        /**  C*/\nt *f();
group_f1 == [text |-> <<" ", "a", " ">>, decl |-> <<"t", " ", "f", "(", "v", ")", ";">>]
group_g == [text |-> <<" ", "b", NL, " ", " ", " ", " ", " ", " ", "c", " ">>,
            decl |-> <<"t", " ", "g", "(", ")", ";">>]
group_f2 == [text |-> <<" ", " ", "c">>, decl |-> <<"t", " ", "*", "f", "(", ")", ";">>]
\* /** c\n */\nt g;
group_g2 == [text |-> <<" ", "c", NL, " ">>, decl |-> <<"t", " ", "g", ";">>]
Groups == {group_f1, group_g, group_f2, group_g2}

\* The headers of at most n commented declarations, none of them twice
Headers(n) == {h \in SeqsUpTo(Groups, n) : \A i, j \in 1..Len(h) : i # j => h[i] # h[j]}

\* The state of main when the template has been read and output opened
MainStarts(tpl, files) ==
    /\ template = tpl
    /\ fs = files
    /\ pc = "find"
    /\ scan = 0
    /\ ip = 0
    /\ pos = 0
    /\ output = <<>>
    /\ CACHE = <<>>
    /\ decls = <<>>
    /\ k = 0
    /\ reads = [p \in DOMAIN files |-> 0]
    /\ err = ""

\* main is not running: the functions are called on their own
MainIdle ==
    /\ template = <<>>
    /\ fs = <<>>
    /\ pc = "idle"
    /\ scan = 0
    /\ ip = 0
    /\ pos = 0
    /\ output = <<>>
    /\ CACHE = <<>>
    /\ decls = <<>>
    /\ k = 0
    /\ reads = <<>>
    /\ err = ""

NoCalls ==
    /\ com = <<>>
    /\ decl = <<>>
    /\ self = None
    /\ text = <<>>
    /\ typeset_out = None

\* Templates over two headers on disk, a.h and b.h, and one path with no file
ExpanderFiles == ("a.h" :> <<group_f1, group_g, group_f2>>) @@ ("b.h" :> <<group_g>>)
ExpanderNames == {<<>>, <<name_f>>, <<name_g, name_f>>}
ExpanderElements ==
    {Text("x"), Text("y"), Marker("c.h", <<>>)}
        \cup {Marker(p, ns) : p \in {"a.h", "b.h"}, ns \in ExpanderNames}

Init ==
    /\ \E tpl \in SeqsUpTo(ExpanderElements, MaxTemplate) :
            MainStarts(tpl, ExpanderFiles)
    /\ NoCalls

Spec == Init /\ [][Next]_vars

\* One header h.h of any of these contents, referenced by a marker with any list of
\* names and then by a marker with no names; or a marker on a missing file
ScanTemplates ==
    {<<Text("x"), Marker("h.h", ns), Text("y"), Marker("h.h", <<>>), Text("x")>> :
        ns \in SeqsUpTo({name_f, name_g}, MaxNames)}
        \cup {<<Marker("c.h", <<>>)>>}

InitScan ==
    /\ \E tpl \in ScanTemplates, h \in Headers(MaxDecls) :
            MainStarts(tpl, "h.h" :> h)
    /\ NoCalls

SpecScan == InitScan /\ [][Next]_vars

-----------------------------------------------------------------------------
(* Decl.__init__ and typeset called on their own.                          *)

\* d = Decl(com, decl)
Construct ==
    /\ self = None
    /\ self' = Decl(com, decl)
    /\ UNCHANGED <<com, decl, typesetVars, mainVars>>

\* typeset(text)
Typeset ==
    /\ typeset_out = None
    /\ typeset_out' = typeset(text)
    /\ UNCHANGED <<text, declVars, mainVars>>

\* The declarations doc can match: no ; or { before the terminator
DeclChars == {"f", "1", " ", "*", "("}
DeclTexts ==
    {body \o <<term>> : body \in SeqsUpTo(DeclChars, MaxDeclLen), term \in {";", "{"}}

InitName ==
    /\ MainIdle
    /\ com = <<>>
    /\ decl \in DeclTexts
    /\ self = None
    /\ text = <<>>
    /\ typeset_out = None

SpecName == InitName /\ [][Construct]_vars

InitComment ==
    /\ MainIdle
    /\ com \in SeqsUpTo({" ", NL, "a"}, MaxComLen)
    /\ decl = group_f1.decl
    /\ self = None
    /\ text = <<>>
    /\ typeset_out = None

SpecComment == InitComment /\ [][Construct]_vars

InitTypeset ==
    /\ MainIdle
    /\ com = <<>>
    /\ decl = <<>>
    /\ self = None
    /\ text \in SeqsUpTo({" ", NL, "a"}, MaxTextLen)
    /\ typeset_out = None

SpecTypeset == InitTypeset /\ [][Typeset]_vars

-----------------------------------------------------------------------------
(* What the claims speak of, stated without the operations above.          *)

Min(a, b) == IF a < b THEN a ELSE b

RECURSIVE Ascending(_)
Ascending(S) ==
    IF S = {} THEN <<>>
    ELSE LET m == CHOOSE x \in S : \A y \in S : x <= y
         IN  <<m>> \o Ascending(S \ {m})

Range(s) == {s[i] : i \in 1..Len(s)}
Distinct(s) == \A i, j \in 1..Len(s) : i # j => s[i] # s[j]

\* The positions at which an element of s occurs for the first (last) time
FirstOccurrences(s) == {i \in 1..Len(s) : \A j \in 1..(i - 1) : s[j] # s[i]}
LastOccurrences(s) == {i \in 1..Len(s) : \A j \in (i + 1)..Len(s) : s[j] # s[i]}

\* s without the later occurrences of its elements
WithoutRepeats(s) ==
    LET idx == Ascending(FirstOccurrences(s)) IN [i \in 1..Len(idx) |-> s[idx[i]]]

\* The names the declarations of a header derive, in scan order
DerivedNames(groups) == [i \in 1..Len(groups) |-> Decl_name(groups[i].decl)]

\* The record of the last declaration of the header that derives name
LastRecord(groups, name) ==
    LET i == CHOOSE j \in LastOccurrences(DerivedNames(groups)) :
                Decl_name(groups[j].decl) = name
    IN  Decl(groups[i].text, groups[i].decl)

\* The generated sections of the output: the n-th begin line, the n-th end line
KindCount(s, kind, upto) == Cardinality({i \in 1..upto : s[i].kind = kind})
NthOfKind(s, kind, n) ==
    CHOOSE i \in 1..Len(s) : s[i].kind = kind /\ KindCount(s, kind, i) = n
NumSections == KindCount(output, "end", Len(output))
SectionBlocks(n) ==
    SubSeq(output, NthOfKind(output, "begin", n) + 1, NthOfKind(output, "end", n) - 1)
MarkerOf(n) == template[NthOfKind(template, "marker", n)]
BlockNames(blocks) == [i \in 1..Len(blocks) |-> blocks[i].name]

\* The blocks a marker stands for
ExpectedBlocks(m) ==
    LET groups == fs[m.file]
        names == IF m.names = <<>> THEN WithoutRepeats(DerivedNames(groups))
                 ELSE WithoutRepeats(m.names)
    IN  [i \in 1..Len(names) |-> markdown(LastRecord(groups, names[i]))]

\* The template with every marker replaced by its generated section
RECURSIVE Expansion(_)
Expansion(tpl) ==
    IF tpl = <<>> THEN <<>>
    ELSE (IF tpl[1].kind = "text" THEN <<tpl[1]>>
          ELSE <<BeginLine(tpl[1].file)>> \o ExpectedBlocks(tpl[1]) \o <<EndLine>>)
         \o Expansion(Tail(tpl))

-----------------------------------------------------------------------------
(* The claims.                                                             *)

\* C1: a marker that lists pairwise distinct names, all of them in the header,
\* gets exactly one block per listed name, in the order of the list, whatever
\* the order of the declarations in the header.
C1_ListedNamesInListedOrder ==
    \A n \in 1..NumSections :
        LET m == MarkerOf(n)
        IN  (m.names # <<>> /\ Distinct(m.names)
                /\ Range(m.names) \subseteq Range(DerivedNames(fs[m.file])))
            => SectionBlocks(n) =
                [i \in 1..Len(m.names) |-> markdown(LastRecord(fs[m.file], m.names[i]))]

C1_Witness ==
    /\ pc = "done"
    /\ NumSections = 2
    /\ MarkerOf(1).names = <<name_g, name_f>>
    /\ DerivedNames(fs["h.h"]) = <<name_f, name_g>>
    /\ BlockNames(SectionBlocks(1)) = <<name_g, name_f>>

\* C2, as claimed: for a marker with no names every record of the mapping is
\* rendered once, and the blocks are in the order in which the declarations
\* that produced the records occur in the header.
C2_OrderOfProducingDeclaration ==
    \A n \in 1..NumSections :
        LET m == MarkerOf(n)
            groups == fs[m.file]
            idx == Ascending(LastOccurrences(DerivedNames(groups)))
        IN  m.names = <<>>
            => SectionBlocks(n) =
                [i \in 1..Len(idx) |->
                    markdown(Decl(groups[idx[i]].text, groups[idx[i]].decl))]

\* C2, amended: for a marker with no names every record of the mapping is
\* rendered once, and the blocks are in the order in which their names first
\* occur in the header; a name declared again keeps the place of its first
\* declaration and takes the record of its last.
C2_OrderOfFirstDeclaration ==
    \A n \in 1..NumSections :
        LET m == MarkerOf(n)
            groups == fs[m.file]
            names == WithoutRepeats(DerivedNames(groups))
        IN  m.names = <<>>
            => SectionBlocks(n) =
                [i \in 1..Len(names) |-> markdown(LastRecord(groups, names[i]))]

C2_Witness ==
    /\ pc = "done"
    /\ MarkerOf(1).names = <<>>
    /\ DerivedNames(fs["h.h"]) = <<name_f, name_g, name_f>>
    /\ fs["h.h"][1] # fs["h.h"][3]
    /\ BlockNames(SectionBlocks(1)) = <<name_f, name_g>>
    /\ SectionBlocks(1)[1] = markdown(Decl(fs["h.h"][3].text, fs["h.h"][3].decl))

\* C3: a marker that lists a name missing from the mapping ends the run with
\* nothing written for it or after it: the output is the expansion of the
\* template before the marker, and no section is begun for such a marker.
C3_AbortBeforeSection ==
    /\ err = "KeyError" =>
        /\ \E i \in 1..Len(template[ip].names) :
                template[ip].names[i] \notin Range(DerivedNames(fs[template[ip].file]))
        /\ pc = "aborted"
        /\ output = Expansion(UpTo(template, ip - 1))
    /\ (pc \in {"begin", "render"} /\ template[ip].names # <<>>) =>
        Range(template[ip].names) \subseteq Range(DerivedNames(fs[template[ip].file]))

C3_Witness ==
    /\ err = "KeyError"
    /\ NumSections = 1
    /\ ip = 2
    /\ Len(template) = 3

\* C4: the cursor never moves backwards, and a run that completes has written
\* the template with each marker replaced by its section and every other
\* character once, in order; a template with no marker is written as it is.
C4_OutputIsExpansion ==
    [][/\ pos' >= pos
       /\ pc' = "done" =>
            /\ output' = Expansion(template')
            /\ (\A i \in 1..Len(template') : template'[i].kind = "text")
                    => output' = template']_vars

C4_Witness ==
    /\ pc = "done"
    /\ NumSections = 2
    /\ template[2].kind = "text"
    /\ template[1].kind = "marker"
    /\ template[3].kind = "marker"

\* C5: the derived name is the last non-empty run of word characters before
\* the first ( of the declaration or, with no (, of the whole declaration.
NameRegion(dcl) == IF find(dcl, "(") < 0 THEN dcl ELSE UpTo(dcl, find(dcl, "("))
HasWordRun(s) == \E i \in 1..Len(s) : s[i] \in WordChars
LastWordRun(s) ==
    LET last == CHOOSE j \in 1..Len(s) :
                    s[j] \in WordChars /\ \A m \in (j + 1)..Len(s) : s[m] \notin WordChars
        first == CHOOSE i \in 1..last :
                    /\ \A m \in i..last : s[m] \in WordChars
                    /\ (i = 1 \/ s[i - 1] \notin WordChars)
    IN  SubSeq(s, first, last)

C5_NameIsLastWordRun ==
    (self # None /\ HasWordRun(NameRegion(decl)))
        => self.name = LastWordRun(NameRegion(decl))

\* C6: in the result of typeset every maximal run of indented lines has a
\* fence line right before it and right after it, every other line is outside
\* the fences, an opening fence is followed and a closing fence preceded by an
\* indented line, and the number of fence lines is even.
OutLines == split_on(typeset_out, NL)
OutBody(i) ==
    IF i = 1 \/ OutLines[i] # <<>> THEN From(OutLines[i], 4) ELSE <<>>
IsFence(i) == OutBody(i) = FENCE
IsIndented(i) == ~IsFence(i) /\ startswith_space(OutBody(i))
FencesBefore(i) == Cardinality({j \in 1..(i - 1) : IsFence(j)})

C6_FencesBracketIndentedRuns ==
    typeset_out # None =>
        LET n == Len(OutLines)
        IN  /\ FencesBefore(n + 1) % 2 = 0
            /\ \A i \in 1..n :
                /\ IsIndented(i) =>
                    /\ FencesBefore(i) % 2 = 1
                    /\ i > 1 /\ (IsFence(i - 1) \/ IsIndented(i - 1))
                    /\ i < n /\ (IsFence(i + 1) \/ IsIndented(i + 1))
                /\ (~IsIndented(i) /\ ~IsFence(i)) => FencesBefore(i) % 2 = 0
                /\ (IsFence(i) /\ FencesBefore(i) % 2 = 0) => (i < n /\ IsIndented(i + 1))
                /\ (IsFence(i) /\ FencesBefore(i) % 2 = 1) => (i > 1 /\ IsIndented(i - 1))

C6_Witness ==
    /\ typeset_out # None
    /\ text = <<"a", NL, " ", "a", NL, " ">>
    /\ Len(OutLines) = 5
    /\ IsFence(2) /\ IsFence(5)

\* C7, as claimed: every line of the comment loses min(k, 4) of its k leading
\* spaces and nothing else; the lines keep their number and order.
LeadingSpaces(line) ==
    CHOOSE n \in 0..Len(line) :
        /\ \A i \in 1..n : line[i] = " "
        /\ (n = Len(line) \/ line[n + 1] # " ")
Unindented(lines) ==
    [i \in 1..Len(lines) |-> From(lines[i], Min(LeadingSpaces(lines[i]), 4))]

C7_EveryLineOfTheComment ==
    self # None => split_on(self.comment, NL) = Unindented(split_on(com, NL))

\* C7, amended: the comment first loses its trailing whitespace (the spaces
\* and line breaks after its last other character); every line of what is
\* left loses min(k, 4) of its k leading spaces and nothing else, and these
\* lines keep their number and order.
WithoutTrailingWhitespace(s) ==
    LET n == CHOOSE m \in 0..Len(s) :
                /\ \A i \in (m + 1)..Len(s) : s[i] \in Whitespace
                /\ (m = 0 \/ s[m] \notin Whitespace)
    IN  UpTo(s, n)

C7_EveryLineOfTheStrippedComment ==
    self # None =>
        split_on(self.comment, NL) =
            Unindented(split_on(WithoutTrailingWhitespace(com), NL))

C7_Witness ==
    /\ self # None
    /\ com = <<NL, " ", " ", " ", " ", " ", "a">>
    /\ self.comment = <<NL, " ", "a">>

\* C8: the mapping of a scanned header has exactly one entry per distinct
\* derived name, and the entry of a name holds the record of the last
\* declaration that derives it.
C8_OneEntryPerNameLastWins ==
    \A p \in DOMAIN CACHE :
        /\ Distinct(od_keys(CACHE[p]))
        /\ Range(od_keys(CACHE[p])) = Range(DerivedNames(fs[p]))
        /\ \A i \in 1..Len(CACHE[p]) :
                CACHE[p][i][2] = LastRecord(fs[p], CACHE[p][i][1])

C8_Witness ==
    /\ "h.h" \in DOMAIN CACHE
    /\ fs["h.h"] = <<group_f1, group_g, group_f2>>
    /\ Len(CACHE["h.h"]) = 2
    /\ od_get(CACHE["h.h"], name_f) = Decl(group_f2.text, group_f2.decl)

\* C9: every header is read at most once, an entry of the cache never changes
\* once it is there, and every marker gets the cached mapping of its header.
C9_CacheEntriesAreStable ==
    [][/\ \A p \in DOMAIN reads' : reads'[p] <= 1
       /\ \A p \in DOMAIN CACHE : p \in DOMAIN CACHE' /\ CACHE'[p] = CACHE[p]
       /\ pc' = "select" => decls' = CACHE'[template'[ip'].file]]_vars

C9_Witness ==
    /\ pc = "select"
    /\ ip = 2
    /\ template[1] = Marker("a.h", <<name_f>>)
    /\ template[2] = Marker("a.h", <<>>)
    /\ reads["a.h"] = 1
    /\ Len(decls) = 2

\* C10: a name listed more than once is rendered once, at the place of its
\* first occurrence in the list; a section has as many blocks as the list
\* has distinct names.
C10_RepeatedNameRenderedOnce ==
    \A n \in 1..NumSections :
        LET m == MarkerOf(n)
        IN  m.names # <<>> =>
                /\ BlockNames(SectionBlocks(n)) = WithoutRepeats(m.names)
                /\ Len(SectionBlocks(n)) = Cardinality(Range(m.names))

C10_Witness ==
    /\ pc = "done"
    /\ MarkerOf(1).names = <<name_f, name_g, name_f>>
    /\ BlockNames(SectionBlocks(1)) = <<name_f, name_g>>

=============================================================================
